---- MODULE Spec2Model ----
(***************************************************************************)
(* Model of app/main.py of markitdown_service: the Markdown image          *)
(* enrichment pass (PictureIntegration), the description client            *)
(* (PictureDescription) and the two conversion endpoints.                  *)
(*                                                                         *)
(* Text is a sequence of one-character strings.  Offsets are 0-based and   *)
(* slices are half-open, as in the Python source.                          *)
(***************************************************************************)
EXTENDS Integers, Sequences, FiniteSets, TLC

(***************************************************************************)
(* Bounds of the model.                                                    *)
(***************************************************************************)
MaxSegs == 3
MaxParts == 2
NumRequests == 2

(***************************************************************************)
(* Python string primitives.                                               *)
(***************************************************************************)
MinOf(S) == CHOOSE x \in S : \A y \in S : x <= y

MaxOf(S) == CHOOSE x \in S : \A y \in S : x >= y

\* the characters matched by \s and removed by str.strip()
IsWs(c) == c \in {" ", "\n", "\t"}

\* s[a:b]
Slice(s, a, b) ==
  LET lo == IF a < 0 THEN 0 ELSE a
      hi == IF b > Len(s) THEN Len(s) ELSE b
  IN IF hi <= lo THEN <<>> ELSE SubSeq(s, lo + 1, hi)

\* s.strip()
Strip(s) ==
  LET nonws == {i \in 1..Len(s) : ~IsWs(s[i])}
  IN IF nonws = {} THEN <<>> ELSE SubSeq(s, MinOf(nonws), MaxOf(nonws))

\* re.sub(r"\s+", "", s)
RemoveWs(s) == SelectSeq(s, LAMBDA c : ~IsWs(c))

\* s.startswith(p)
StartsWith(s, p) == Len(s) >= Len(p) /\ SubSeq(s, 1, Len(p)) = p

\* s.find(sub): 0-based offset of the first occurrence, -1 when absent
Find(s, sub) ==
  LET at == {i \in 0..(Len(s) - Len(sub)) : Slice(s, i, i + Len(sub)) = sub}
  IN IF at = {} THEN -1 ELSE MinOf(at)

\* s.replace(old, new, 1)
ReplaceFirst(s, old, new) ==
  LET i == Find(s, old)
  IN IF i < 0 THEN s
     ELSE Slice(s, 0, i) \o new \o Slice(s, i + Len(old), Len(s))

(***************************************************************************)
(* Literals of the source.                                                 *)
(***************************************************************************)
DataImage == <<"d","a","t","a",":","i","m","a","g","e">>

Base64Marker == <<"b","a","s","e","6","4",",">>

FailedPrefix ==
  <<"[","P","i","c","t","u","r","e","D","e","s","c","r","i","p","t","i","o","n",
    " ","f","a","i","l","e","d",":"," ">>

(***************************************************************************)
(* md_image_re = !\[[^\]]*\]\((.*?)\) with DOTALL.                         *)
(* A match starting at 1-based index i: "![", then up to the first "]",    *)
(* which must be followed by "(", then lazily up to the first ")".         *)
(***************************************************************************)
FirstAt(s, from, c) ==
  LET at == {i \in from..Len(s) : s[i] = c}
  IN IF at = {} THEN 0 ELSE MinOf(at)

CloseBracket(s, i) == FirstAt(s, i + 2, "]")

CloseParen(s, i) == FirstAt(s, CloseBracket(s, i) + 2, ")")

MatchAt(s, i) ==
  /\ i + 1 <= Len(s)
  /\ s[i] = "!"
  /\ s[i + 1] = "["
  /\ LET close == CloseBracket(s, i)
     IN /\ close # 0
        /\ close + 1 <= Len(s)
        /\ s[close + 1] = "("
        /\ FirstAt(s, close + 2, ")") # 0

\* the next match of finditer at or after 1-based index from; 0 when none
NextMatch(s, from) ==
  LET at == {i \in from..Len(s) : MatchAt(s, i)}
  IN IF at = {} THEN 0 ELSE MinOf(at)

\* m.span(1), m.group(1) and m.end() of the match that starts at i
SpanStart(s, i) == CloseBracket(s, i) + 1

SpanEnd(s, i) == CloseParen(s, i) - 1

Group1(s, i) == Slice(s, SpanStart(s, i), SpanEnd(s, i))

MatchEnd(s, i) == CloseParen(s, i)

(***************************************************************************)
(* title_match = re.search(r"\s+(?:\".*\"|'.*')\s*$", inner, DOTALL)       *)
(* TitleStart is title_match.start(), -1 when there is no match.           *)
(***************************************************************************)
TitleStart(inner) ==
  LET nonws == {i \in 1..Len(inner) : ~IsWs(inner[i])}
      e == IF nonws = {} THEN 0 ELSE MaxOf(nonws)
      opens == {q \in 2..(e - 1) :
                  /\ inner[q] \in {"\"", "'"}
                  /\ inner[q] = inner[e]
                  /\ IsWs(inner[q - 1])}
      q0 == MinOf(opens)
      run == {p \in 1..(q0 - 1) : \A k \in p..(q0 - 1) : IsWs(inner[k])}
  IN IF opens = {} THEN -1 ELSE MinOf(run) - 1

UrlPart(inner) ==
  LET title_start == TitleStart(inner)
  IN IF title_start >= 0
       THEN Strip(Slice(inner, 0, title_start))
       ELSE Strip(inner)

\* a prefix test that takes every reference that is not an http URL
IsDataImageLoose(url_part) == ~StartsWith(url_part, <<"h","t","t","p">>)

IsDataImage(url_part) == StartsWith(url_part, DataImage)

\* a key that keeps the whitespace of a wrapped payload
DataUriCleanKeepWs(url_part) == url_part

\* data_uri_clean
DataUriClean(url_part) ==
  LET i == Find(url_part, Base64Marker)
  IN IF i >= 0
       THEN Slice(url_part, 0, i) \o Base64Marker
              \o RemoveWs(Slice(url_part, i + Len(Base64Marker), Len(url_part)))
       ELSE url_part

(***************************************************************************)
(* Python values decoded from JSON.  Every value is a record of one shape: *)
(* t is the type, s the characters of a string or number, items the        *)
(* elements of a list or the key/value pairs of a dict.                    *)
(***************************************************************************)
JNull == [t |-> "null", s |-> <<>>, items |-> <<>>]

JStr(s) == [t |-> "str", s |-> s, items |-> <<>>]

JNum(s) == [t |-> "num", s |-> s, items |-> <<>>]

JList(items) == [t |-> "list", s |-> <<>>, items |-> items]

JDict(pairs) == [t |-> "dict", s |-> <<>>, items |-> pairs]

Pair(k, v) == [k |-> k, v |-> v]

KChoices == <<"c","h","o","i","c","e","s">>

KMessage == <<"m","e","s","s","a","g","e">>

KContent == <<"c","o","n","t","e","n","t">>

KType == <<"t","y","p","e">>

KText == <<"t","e","x","t">>

KOutput == <<"o","u","t","p","u","t">>

KDescription == <<"d","e","s","c","r","i","p","t","i","o","n">>

\* isinstance(v, str), isinstance(v, list), isinstance(v, dict)
IsStr(v) == v.t = "str"

IsList(v) == v.t = "list"

IsDict(v) == v.t = "dict"

\* bool(v)
Truthy(v) ==
  CASE v.t = "null" -> FALSE
    [] v.t = "str" -> v.s # <<>>
    [] v.t = "num" -> v.s # <<"0">>
    [] OTHER -> v.items # <<>>

\* d.get(key) on a dict d: None when the key is absent
Get(d, key) ==
  LET at == {i \in 1..Len(d.items) : d.items[i].k = key}
  IN IF at = {} THEN JNull ELSE d.items[MaxOf(at)].v

\* isinstance(v, str) and v.strip()
NonBlankStr(v) == IsStr(v) /\ Strip(v.s) # <<>>

(***************************************************************************)
(* json.dumps(v) with the default separators.                              *)
(***************************************************************************)
RECURSIVE Escape(_)
Escape(s) ==
  IF s = <<>> THEN <<>>
  ELSE (CASE Head(s) = "\"" -> <<"\\", "\"">>
          [] Head(s) = "\\" -> <<"\\", "\\">>
          [] Head(s) = "\n" -> <<"\\", "n">>
          [] Head(s) = "\t" -> <<"\\", "t">>
          [] OTHER -> <<Head(s)>>) \o Escape(Tail(s))

Quoted(s) == <<"\"">> \o Escape(s) \o <<"\"">>

RECURSIVE Dumps(_)
RECURSIVE DumpsItems(_, _)
DumpsItems(items, isdict) ==
  IF items = <<>> THEN <<>>
  ELSE LET one == IF isdict
                    THEN Quoted(Head(items).k) \o <<":", " ">> \o Dumps(Head(items).v)
                    ELSE Dumps(Head(items))
       IN one \o (IF Tail(items) = <<>> THEN <<>> ELSE <<",", " ">>)
              \o DumpsItems(Tail(items), isdict)

Dumps(v) ==
  CASE v.t = "null" -> <<"n","u","l","l">>
    [] v.t = "str" -> Quoted(v.s)
    [] v.t = "num" -> v.s
    [] v.t = "list" -> <<"[">> \o DumpsItems(v.items, FALSE) \o <<"]">>
    [] OTHER -> <<"{">> \o DumpsItems(v.items, TRUE) \o <<"}">>

(***************************************************************************)
(* PictureDescription.  A remote outcome r is what requests.post and the   *)
(* response give: r.ok is FALSE when post or raise_for_status raised       *)
(* (r.detail is str(e)); r.parses is FALSE when resp.json() raises;        *)
(* r.text is resp.text and r.j the decoded body.                           *)
(***************************************************************************)
Outcome(ok, detail, parses, text, j) ==
  [ok |-> ok, detail |-> detail, parses |-> parses, text |-> text, j |-> j]

\* no return was reached
NoReturn == [t |-> "none", s |-> <<>>, items |-> <<>>]

\* for item in content: the first dict typed "text" whose text is truthy
RECURSIVE FromParts(_)
FromParts(parts) ==
  IF parts = <<>> THEN NoReturn
  ELSE LET item == Head(parts)
       IN IF /\ IsDict(item)
             /\ Get(item, KType) = JStr(KText)
             /\ Truthy(Get(item, KText))
            THEN Get(item, KText)
            ELSE FromParts(Tail(parts))

\* the body of "if isinstance(msg, dict):"
FromMessage(first) ==
  LET msg == IF IsDict(first) THEN Get(first, KMessage) ELSE JNull
      content == Get(msg, KContent)
  IN IF ~IsDict(msg) THEN NoReturn
     ELSE IF IsStr(content) THEN content
     ELSE IF IsList(content) THEN FromParts(content.items)
     ELSE NoReturn

\* the body of "if choices and isinstance(choices, list) and len(choices) > 0:"
FromChoices(j) ==
  LET choices == IF IsDict(j) THEN Get(j, KChoices) ELSE JNull
      first == choices.items[1]
      text == IF IsDict(first) THEN Get(first, KText) ELSE JNull
  IN IF ~(Truthy(choices) /\ IsList(choices) /\ Len(choices.items) > 0)
       THEN NoReturn
     ELSE IF FromMessage(first) # NoReturn THEN FromMessage(first)
     ELSE IF NonBlankStr(text) THEN text
     ELSE NoReturn

\* the keys probed in another order
TopLevelKeysReordered == <<KOutput, KText, KMessage, KDescription>>

TopLevelKeys == <<KText, KOutput, KMessage, KDescription>>

\* for key in ("text", "output", "message", "description")
FromTopLevel(j) ==
  LET hit == {i \in 1..Len(TopLevelKeys) : NonBlankStr(Get(j, TopLevelKeys[i]))}
  IN IF ~IsDict(j) \/ hit = {} THEN NoReturn
     ELSE Get(j, TopLevelKeys[MinOf(hit)])

\* the part of PictureDescription after resp.json() succeeded
Extract(j) ==
  IF FromChoices(j) # NoReturn THEN FromChoices(j)
  ELSE IF FromTopLevel(j) # NoReturn THEN FromTopLevel(j)
  ELSE JStr(Dumps(j))

PictureDescription(r) ==
  IF ~r.ok THEN JStr(FailedPrefix \o r.detail \o <<"]">>)
  ELSE IF ~r.parses THEN JStr(r.text)
  ELSE Extract(r.j)

(***************************************************************************)
(* Inputs: the Markdown files read by PictureIntegration are built from    *)
(* at most MaxSegs of these pieces.                                        *)
(***************************************************************************)
\* x 
SegText ==
  <<"x"," ">>

\* ![a](data:image;base64,AA)
SegImgA ==
  <<"!","[","a","]","(","d","a","t","a",":","i","m","a","g","e",";","b","a","s","e","6","4",",","A","A",")">>

\* ![b](data:image;base64,A\nA "t")     the payload of SegImgA, wrapped
SegImgAWrapped ==
  <<"!","[","b","]","(","d","a","t","a",":","i","m","a","g","e",";","b","a","s","e","6","4",",","A","\n","A"," ","\"","t","\"",")">>

\* ![c]( data:image;base64,BB 'u')
SegImgB ==
  <<"!","[","c","]","("," ","d","a","t","a",":","i","m","a","g","e",";","b","a","s","e","6","4",",","B","B"," ","'","u","'",")">>

\* ![p](u.png "t")
SegPlainRef ==
  <<"!","[","p","]","(","u",".","p","n","g"," ","\"","t","\"",")">>

\* ![n](data:image,z)
SegNoBase64 ==
  <<"!","[","n","]","(","d","a","t","a",":","i","m","a","g","e",",","z",")">>

\* ![q] )
SegStray ==
  <<"!","[","q","]"," ",")">>

Segments ==
  {SegText, SegImgA, SegImgAWrapped, SegImgB, SegPlainRef, SegNoBase64, SegStray}

RECURSIVE DocsOf(_)
DocsOf(n) ==
  IF n = 0 THEN {<<>>}
  ELSE DocsOf(n - 1) \cup {d \o g : d \in DocsOf(n - 1), g \in Segments}

Docs == DocsOf(MaxSegs)

\* the file at md_filepath: absent, or holding one of the documents
MdFiles ==
  {[exists |-> FALSE, text |-> <<>>]} \cup {[exists |-> TRUE, text |-> d] : d \in Docs}

(***************************************************************************)
(* What the description service may answer to one call of the enrichment   *)
(* pass: a refused connection, a chat completion, a body that is not JSON, *)
(* and a text part that holds a number.                                    *)
(***************************************************************************)
Refused == <<"r","e","f","u","s","e","d">>

PlainText == <<"p","l","a","i","n"," ","t","e","x","t">>

ChatCompletion(content) ==
  JDict(<<Pair(KChoices, JList(<<JDict(<<Pair(KMessage,
            JDict(<<Pair(KContent, content)>>))>>)>>))>>)

TextPart(text) == JDict(<<Pair(KType, JStr(KText)), Pair(KText, text)>>)

RemoteOutcomes ==
  { Outcome(FALSE, Refused, FALSE, <<>>, JNull),
    Outcome(TRUE, <<>>, TRUE, <<>>, ChatCompletion(JStr(<<"o","k">>))),
    Outcome(TRUE, <<>>, FALSE, PlainText, JNull),
    Outcome(TRUE, <<>>, TRUE, <<>>, ChatCompletion(JList(<<TextPart(JNum(<<"7">>))>>))) }

(***************************************************************************)
(* State.                                                                  *)
(***************************************************************************)
VARIABLES
  md_file,    \* the file at md_filepath
  original,   \* the string md_image_re.finditer scans
  content,    \* the variable content of PictureIntegration
  pos,        \* 1-based index at which finditer resumes
  seen,       \* the list seen
  calls,      \* arguments of the PictureDescription calls, in order
  descs,      \* values returned by those calls, in order
  posts,      \* number of requests.post calls
  outs,       \* the remote outcomes of those calls, in order
  pc          \* "start", "loop", "done" (returned content), "raised"

ivars == <<md_file, original, content, pos, seen, calls, descs, posts, outs, pc>>

\* one call of PictureDescription on its own
VARIABLES
  resp,       \* the remote outcome of the call
  result,     \* the value the call returned
  xpc         \* "call", "returned"

xvars == <<resp, result, xpc>>

\* the requests served by the event loop
VARIABLES
  rpc,        \* where each request's handler stands
  loop,       \* the request whose handler occupies the event loop thread, 0 if none
  files,      \* the files on disk, each with the request that created it
  response,   \* the HTTP response of each finished request
  converted,  \* the request's converter.convert and save_as_markdown succeeded
  enrich_raised  \* PictureIntegration raised in the request

rvars == <<rpc, loop, files, response, converted, enrich_raised>>

vars == <<ivars, xvars, rvars>>

Requests == 1..NumRequests

NoResponse == [status |-> 0, body |-> "none"]

IntegrationIdle ==
  /\ md_file = [exists |-> FALSE, text |-> <<>>]
  /\ original = <<>>
  /\ content = <<>>
  /\ pos = 1
  /\ seen = <<>>
  /\ calls = <<>>
  /\ descs = <<>>
  /\ posts = 0
  /\ outs = <<>>
  /\ pc = "idle"

ExtractIdle ==
  /\ resp = Outcome(FALSE, <<>>, FALSE, <<>>, JNull)
  /\ result = NoReturn
  /\ xpc = "idle"

RequestInit ==
  /\ rpc = [r \in Requests |-> "idle"]
  /\ loop = 0
  /\ files = {}
  /\ response = [r \in Requests |-> NoResponse]
  /\ converted = [r \in Requests |-> FALSE]
  /\ enrich_raised = [r \in Requests |-> FALSE]

\* content = content[:start] + new_inner + content[end:]
Substitute(text, start, end, new_inner) ==
  Slice(text, 0, start) \o new_inner \o Slice(text, end, Len(text))

IntegrationInit ==
  /\ md_file \in MdFiles
  /\ original = <<>>
  /\ content = <<>>
  /\ pos = 1
  /\ seen = <<>>
  /\ calls = <<>>
  /\ descs = <<>>
  /\ posts = 0
  /\ outs = <<>>
  /\ pc = "start"

\* os.path.exists, open, f.read
ReadFile ==
  /\ pc = "start"
  /\ IF md_file.exists
       THEN /\ original' = md_file.text
            /\ content' = md_file.text
            /\ pc' = "loop"
       ELSE /\ pc' = "raised"
            /\ UNCHANGED <<original, content>>
  /\ UNCHANGED <<xvars, rvars, md_file, pos, seen, calls, descs, posts, outs>>

InSeen(key) == \E i \in 1..Len(seen) : seen[i] = key

\* one iteration of the for loop on a match that is not a data URI image
SkipOther ==
  /\ pc = "loop"
  /\ NextMatch(original, pos) # 0
  /\ LET m == NextMatch(original, pos)
     IN /\ ~IsDataImage(UrlPart(Group1(original, m)))
        /\ pos' = MatchEnd(original, m) + 1
  /\ UNCHANGED <<xvars, rvars, md_file, original, content, seen, calls, descs, posts, outs, pc>>

\* one iteration that ends at "continue"
SkipSeen ==
  /\ pc = "loop"
  /\ NextMatch(original, pos) # 0
  /\ LET m == NextMatch(original, pos)
         url_part == UrlPart(Group1(original, m))
     IN /\ IsDataImage(url_part)
        /\ InSeen(DataUriClean(url_part))
        /\ pos' = MatchEnd(original, m) + 1
  /\ UNCHANGED <<xvars, rvars, md_file, original, content, seen, calls, descs, posts, outs, pc>>

\* one iteration that calls PictureDescription and rewrites content
Describe ==
  /\ pc = "loop"
  /\ NextMatch(original, pos) # 0
  /\ LET m == NextMatch(original, pos)
         inner == Group1(original, m)
         url_part == UrlPart(inner)
         key == DataUriClean(url_part)
     IN /\ IsDataImage(url_part)
        /\ ~InSeen(key)
        /\ \E r \in RemoteOutcomes :
             LET desc == PictureDescription(r)
             IN /\ seen' = Append(seen, key)
                /\ calls' = Append(calls, key)
                /\ descs' = Append(descs, desc)
                /\ posts' = posts + 1
                /\ outs' = Append(outs, r)
                /\ IF IsStr(desc)
                     THEN /\ content' = Substitute(content, SpanStart(original, m),
                                          SpanEnd(original, m),
                                          ReplaceFirst(inner, url_part, desc.s))
                          /\ pos' = MatchEnd(original, m) + 1
                          /\ pc' = "loop"
                     ELSE \* str.replace raises TypeError
                          /\ pc' = "raised"
                          /\ UNCHANGED <<content, pos>>
  /\ UNCHANGED <<xvars, rvars, md_file, original>>

\* return content
Return ==
  /\ pc = "loop"
  /\ NextMatch(original, pos) = 0
  /\ pc' = "done"
  /\ UNCHANGED <<xvars, rvars, md_file, original, content, pos, seen, calls, descs, posts, outs>>

Init == IntegrationInit /\ ExtractIdle /\ RequestInit

Next == ReadFile \/ SkipOther \/ SkipSeen \/ Describe \/ Return

Spec == Init /\ [][Next]_vars

(***************************************************************************)
(* Vocabulary of the properties of the enrichment pass.  The occurrences,  *)
(* their keys and the expected text are computed from the input file, not  *)
(* from the variables the pass works on.                                   *)
(***************************************************************************)
Input == md_file.text

Returned == pc = "done"

\* the starts of all image references of s, left to right
RECURSIVE RefsFrom(_, _)
RefsFrom(s, from) ==
  LET m == NextMatch(s, from)
  IN IF m = 0 THEN <<>> ELSE <<m>> \o RefsFrom(s, MatchEnd(s, m) + 1)

UrlOf(s, m) == UrlPart(Group1(s, m))

\* the embedded-image occurrences: the URL part begins with data:image
Embedded(s) ==
  SelectSeq(RefsFrom(s, 1), LAMBDA m : StartsWith(UrlOf(s, m), DataImage))

\* the normalized payload: whitespace removed after "base64," only
Payload(url) ==
  LET i == Find(url, Base64Marker)
  IN IF i < 0 THEN url
     ELSE LET b == i + Len(Base64Marker)
          IN Slice(url, 0, b) \o RemoveWs(Slice(url, b, Len(url)))

PayloadOf(s, m) == Payload(UrlOf(s, m))

Payloads(s) == {PayloadOf(s, Embedded(s)[i]) : i \in 1..Len(Embedded(s))}

\* the payloads in order of first appearance
RECURSIVE FirstAppearances(_, _)
FirstAppearances(keys, had) ==
  IF keys = <<>> THEN <<>>
  ELSE IF Head(keys) \in had THEN FirstAppearances(Tail(keys), had)
  ELSE <<Head(keys)>> \o FirstAppearances(Tail(keys), had \cup {Head(keys)})

CallsFor(key) == {i \in 1..Len(calls) : calls[i] = key}

Described(key) == CallsFor(key) # {} /\ \A i \in CallsFor(key) : IsStr(descs[i])

\* the description text obtained for a payload
DescriptionOf(key) == descs[MinOf(CallsFor(key))].s

\* the parenthesized content of occurrence m with its URL part replaced
NewInner(s, m) ==
  LET inner == Group1(s, m)
      a == Find(inner, UrlOf(s, m))
  IN Slice(inner, 0, a) \o DescriptionOf(PayloadOf(s, m))
       \o Slice(inner, a + Len(UrlOf(s, m)), Len(inner))

\* s with every embedded occurrence from index from on rewritten; upto is
\* the 0-based offset up to which s is already emitted
RECURSIVE Rewrite(_, _, _)
Rewrite(s, upto, from) ==
  LET m == NextMatch(s, from)
  IN IF m = 0 THEN Slice(s, upto, Len(s))
     ELSE IF StartsWith(UrlOf(s, m), DataImage)
       THEN Slice(s, upto, SpanStart(s, m)) \o NewInner(s, m)
              \o Rewrite(s, SpanEnd(s, m), MatchEnd(s, m) + 1)
       ELSE Rewrite(s, upto, MatchEnd(s, m) + 1)

AllDescribed == \A k \in Payloads(Input) : Described(k)

\* every occurrence has its URL part replaced by its description and
\* nothing else differs from the input
FullyEnriched == AllDescribed /\ content = Rewrite(Input, 0, 1)

IsSubstring(sub, s) == Find(s, sub) >= 0

(***************************************************************************)
(* Properties of the enrichment pass.                                      *)
(***************************************************************************)

\* C1: when the input holds k >= 2 embedded images, all of the same
\* normalized payload, the pass makes exactly one PictureDescription call
\* and the returned text has every one of the k URL parts replaced by that
\* description.
C1_RepeatedImageAllReplaced ==
  (Returned /\ Len(Embedded(Input)) >= 2 /\ Cardinality(Payloads(Input)) = 1)
    => (Len(calls) = 1 /\ FullyEnriched)

\* C2: when the input holds two or more embedded images of pairwise
\* distinct payloads, the returned text is the input with each URL part
\* replaced once by its own description and nothing else changed.
C2_EachSubstitutionInPlace ==
  (Returned /\ Len(Embedded(Input)) >= 2
     /\ Cardinality(Payloads(Input)) = Len(Embedded(Input)))
    => FullyEnriched

IsPrefix(a, b) == Len(a) <= Len(b) /\ SubSeq(b, 1, Len(a)) = a

\* two URL parts whose base64 segments differ by whitespace only
SameButWhitespace(u, v) ==
  LET i == Find(u, Base64Marker)
      j == Find(v, Base64Marker)
  IN /\ i >= 0
     /\ i = j
     /\ Slice(u, 0, i) = Slice(v, 0, j)
     /\ RemoveWs(Slice(u, i, Len(u))) = RemoveWs(Slice(v, j, Len(v)))

\* C3: PictureDescription is called once per distinct normalized payload,
\* with that payload, in order of first appearance (the calls made so far
\* are always a prefix of that list, and all of it at the return), one HTTP
\* post per call; occurrences whose base64 differs only by whitespace cause
\* one call together.
C3_OneCallPerPayload ==
  LET emb == Embedded(Input)
      urls == [i \in 1..Len(emb) |-> UrlOf(Input, emb[i])]
      order == FirstAppearances([i \in 1..Len(emb) |-> Payload(urls[i])], {})
  IN /\ IsPrefix(calls, order)
     /\ posts = Len(calls)
     /\ Returned =>
          /\ calls = order
          /\ \A a, b \in 1..Len(emb) :
               SameButWhitespace(urls[a], urls[b]) =>
                 Cardinality({i \in 1..Len(calls) :
                    RemoveWs(calls[i]) \in {RemoveWs(urls[a]), RemoveWs(urls[b])}}) = 1

C3_Witness ==
  /\ Returned
  /\ Len(calls) >= 2
  /\ \E a, b \in 1..Len(Embedded(Input)) :
       LET u == UrlOf(Input, Embedded(Input)[a])
           v == UrlOf(Input, Embedded(Input)[b])
       IN u # v /\ SameButWhitespace(u, v)

\* C4: the returned text holds, for every embedded occurrence of the input,
\* that occurrence with its alt text and title segment as they were and
\* the URL part between them replaced by the description.
C4_AltAndTitleKept ==
  Returned =>
    \A i \in 1..Len(Embedded(Input)) :
      LET m == Embedded(Input)[i]
      IN /\ Described(PayloadOf(Input, m))
         /\ IsSubstring(Slice(Input, m - 1, SpanStart(Input, m))
                          \o NewInner(Input, m) \o <<")">>, content)

FailedCalls == {i \in 1..Len(outs) : ~outs[i].ok}

\* C5: when exactly one description call fails, that call returns
\* "[PictureDescription failed: <detail>]" after a single post, the pass
\* still returns, and the returned text is the input with that placeholder
\* in place of that image, the other images described and all other text
\* unchanged.
C5_FailureBecomesPlaceholder ==
  (Returned /\ Cardinality(FailedCalls) = 1)
    => /\ \A i \in FailedCalls :
            descs[i] = JStr(FailedPrefix \o outs[i].detail \o <<"]">>)
       /\ posts = Len(calls)
       /\ FullyEnriched

\* C6: on an input without any embedded image (plain image references
\* included) the pass makes no PictureDescription call, does not fail, and
\* returns the input unchanged.
C6_NoEmbeddedImageNoChange ==
  (md_file.exists /\ Embedded(Input) = <<>>)
    => /\ calls = <<>>
       /\ posts = 0
       /\ pc # "raised"
       /\ Returned => content = Input

C6_Witness ==
  /\ Returned
  /\ Embedded(Input) = <<>>
  /\ Len(RefsFrom(Input, 1)) >= 2
  /\ content = Input

(***************************************************************************)
(* PictureDescription on its own: the responses of the description         *)
(* service are drawn from the shapes the extraction code distinguishes.    *)
(* Strings at different places hold different letters, so the value        *)
(* returned tells which field it came from.                                *)
(***************************************************************************)
Absent == [t |-> "absent", s |-> <<>>, items |-> <<>>]

\* a key/value pair, or nothing when the key is absent
Opt(k, v) == IF v = Absent THEN <<>> ELSE <<Pair(k, v)>>

Seven == JNum(<<"7">>)

Fields(letter) == {Absent, JStr(<<>>), JStr(<<" ">>), JStr(<<letter>>)}

TopFields(letter) == {Absent, JStr(<<" ">>), JStr(<<letter>>)}

PartKinds == {"nondict", "image", "empty", "text", "number"}

Digit(i) == <<"1","2","3","4","5">>[i]

MkPart(kind, i) ==
  CASE kind = "nondict" -> JStr(<<"z">>)
    [] kind = "image" -> JDict(<<Pair(KType, JStr(<<"i","m","g">>)),
                                 Pair(KText, JStr(<<"i", Digit(i)>>))>>)
    [] kind = "empty" -> TextPart(JStr(<<>>))
    [] kind = "text" -> TextPart(JStr(<<"p", Digit(i)>>))
    [] OTHER -> TextPart(Seven)

PartLists ==
  UNION {{[i \in 1..n |-> MkPart(f[i], i)] : f \in [1..n -> PartKinds]} : n \in 0..MaxParts}

Contents ==
  {Absent, JNull, JStr(<<>>), JStr(<<" ">>), JStr(<<"a">>), Seven}
    \cup {JList(parts) : parts \in PartLists}

Messages ==
  {Absent, JStr(<<"m">>)} \cup {JDict(Opt(KContent, c)) : c \in Contents}

Firsts ==
  {JStr(<<"f">>)}
    \cup {JDict(Opt(KMessage, m) \o Opt(KText, t)) : m \in Messages, t \in Fields("b")}

ChoicesValues ==
  {Absent, JList(<<>>), JStr(<<"s">>), JDict(<<Pair(KText, JStr(<<"c">>))>>)}
    \cup {JList(<<f>>) : f \in Firsts}

Bodies ==
  {JNull, JList(<<JStr(<<"l">>)>>), JStr(<<"j">>)}
    \cup {JDict(Opt(KChoices, c) \o Opt(KDescription, d) \o Opt(KMessage, m)
                  \o Opt(KOutput, o) \o Opt(KText, t)) :
            c \in ChoicesValues, d \in TopFields("d"), m \in TopFields("m"),
            o \in TopFields("o"), t \in TopFields("t")}

Responses ==
  {Outcome(FALSE, Refused, FALSE, <<>>, JNull),
   Outcome(TRUE, <<>>, FALSE, PlainText, JNull)}
    \cup {Outcome(TRUE, <<>>, TRUE, <<>>, j) : j \in Bodies}

ExtractInit ==
  /\ resp \in Responses
  /\ result = NoReturn
  /\ xpc = "call"

\* PictureDescription, from the post to the return
Respond ==
  /\ xpc = "call"
  /\ result' = PictureDescription(resp)
  /\ xpc' = "returned"
  /\ UNCHANGED <<ivars, rvars, resp>>

InitExtract == IntegrationIdle /\ ExtractInit /\ RequestInit

NextExtract == Respond

SpecExtract == InitExtract /\ [][NextExtract]_vars

(***************************************************************************)
(* Properties of PictureDescription.                                       *)
(***************************************************************************)
NonEmptyStr(v) == IsStr(v) /\ v.s # <<>>

NotBlank(v) == IsStr(v) /\ \E i \in 1..Len(v.s) : ~IsWs(v.s[i])

FirstChoice(j) ==
  IF IsDict(j) /\ IsList(Get(j, KChoices)) /\ Get(j, KChoices).items # <<>>
    THEN Get(j, KChoices).items[1]
    ELSE JNull

FieldOf(v, key) == IF IsDict(v) THEN Get(v, key) ELSE JNull

TypedText(item) == IsDict(item) /\ Get(item, KType) = JStr(KText)

\* the candidates (a), (b), (c) in priority order, as the priority list
\* states them: for a list of parts, the first part typed as text
StatedCandidates(j) ==
  LET mcontent == FieldOf(FieldOf(FirstChoice(j), KMessage), KContent)
      typed == {i \in 1..Len(mcontent.items) : TypedText(mcontent.items[i])}
      a == IF IsList(mcontent) /\ typed # {}
             THEN Get(mcontent.items[MinOf(typed)], KText)
             ELSE mcontent
  IN <<a, FieldOf(FirstChoice(j), KText), FieldOf(j, KText), FieldOf(j, KOutput),
       FieldOf(j, KMessage), FieldOf(j, KDescription)>>

\* the first candidate that yields non-empty content, else the serialized
\* body; NonEmpty is the reading of "non-empty"
StatedExtract(j, NonEmpty(_)) ==
  LET c == StatedCandidates(j)
      hit == {i \in 1..Len(c) : NonEmpty(c[i])}
  IN IF hit = {} THEN JStr(Dumps(j)) ELSE c[MinOf(hit)]

\* C8: on a successful response the description is the first of (a) the
\* first choice's message content (a string, or the first part typed as
\* text), (b) the first choice's text, (c) the top-level text, output,
\* message, description that yields non-empty content; a body that is not
\* JSON is returned verbatim; when none of (a)-(c) yields non-empty
\* content the serialized body is returned.  "Non-empty" is read either as
\* "not the empty string" or as "not blank", whichever fits.
C8_StatedPriorityOrder ==
  (xpc = "returned" /\ resp.ok)
    => IF resp.parses
         THEN result \in {StatedExtract(resp.j, NonEmptyStr), StatedExtract(resp.j, NotBlank)}
         ELSE result = JStr(resp.text)

\* (a) as the code takes it: a string content is returned even when empty;
\* in a list of parts, the text of the first part typed as text whose text
\* is truthy
PartsText(mcontent) ==
  LET good == {i \in 1..Len(mcontent.items) :
                 TypedText(mcontent.items[i]) /\ Truthy(Get(mcontent.items[i], KText))}
  IN IF good = {} THEN Absent ELSE Get(mcontent.items[MinOf(good)], KText)

MessageContent(j) ==
  LET msg == FieldOf(FirstChoice(j), KMessage)
      mcontent == FieldOf(msg, KContent)
  IN IF IsDict(msg) /\ IsStr(mcontent) THEN mcontent
     ELSE IF IsDict(msg) /\ IsList(mcontent) THEN PartsText(mcontent)
     ELSE Absent

AmendedExtract(j) ==
  LET c == <<FieldOf(FirstChoice(j), KText), FieldOf(j, KText), FieldOf(j, KOutput),
             FieldOf(j, KMessage), FieldOf(j, KDescription)>>
      hit == {i \in 1..Len(c) : NotBlank(c[i])}
  IN IF MessageContent(j) # Absent THEN MessageContent(j)
     ELSE IF hit # {} THEN c[MinOf(hit)]
     ELSE JStr(Dumps(j))

\* C8 amended: the priority order is (a) the first choice's message content
\* when it is a string, even an empty one, or else the text of the first
\* part typed as text whose text is non-empty, (b) the first choice's text
\* when it is a string that is not blank, (c) the first of the top-level
\* text, output, message, description that is a string that is not blank;
\* a body that is not JSON is returned verbatim; when none of these
\* returns, the serialized body is returned.
C8_ExtractionOrder ==
  (xpc = "returned" /\ resp.ok)
    => result = (IF resp.parses THEN AmendedExtract(resp.j) ELSE JStr(resp.text))

\* a message content is returned although the first choice's text and two
\* top-level fields also hold text
C8_Witness ==
  /\ xpc = "returned"
  /\ resp.ok
  /\ resp.parses
  /\ result = JStr(<<"a">>)
  /\ FieldOf(FirstChoice(resp.j), KText) = JStr(<<"b">>)
  /\ FieldOf(resp.j, KOutput) = JStr(<<"o">>)
  /\ FieldOf(resp.j, KText) = JStr(<<"t">>)

(***************************************************************************)
(* The two endpoints.  The handlers are coroutines of one event loop: a    *)
(* handler runs on the loop thread from one await to the next, and a call  *)
(* that blocks keeps the loop (loop = r) until it returns.                 *)
(***************************************************************************)
Reply(status, body) == [status |-> status, body |-> body]

Upload(r) == [owner |-> r, what |-> "upload"]

MdFile(r) == [owner |-> r, what |-> "with-images.md"]

\* a handler that re-raises what PictureIntegration raised
AfterEnrichmentNoFallback(raised) ==
  IF raised THEN Reply(500, "Docling conversion failed") ELSE Reply(200, "integrated")

\* the try/except around PictureIntegration and the Response that follows
AfterEnrichment(raised) ==
  IF raised THEN Reply(200, "export_to_markdown") ELSE Reply(200, "integrated")

\* a request arrives for one of the two routes
Arrive(r) ==
  /\ rpc[r] = "idle"
  /\ \E route \in {"docling", "markitdown"} : rpc' = [rpc EXCEPT ![r] = route]
  /\ UNCHANGED <<ivars, xvars, loop, files, response, converted, enrich_raised>>

\* convert_file_to_markdown_by_markitdown up to converter.convert_stream,
\* which is called on the loop thread
MarkitdownEnter(r) ==
  /\ rpc[r] = "markitdown"
  /\ loop = 0
  /\ \E named \in BOOLEAN :
       IF named
         THEN /\ rpc' = [rpc EXCEPT ![r] = "md_converting"]
              /\ loop' = r
              /\ UNCHANGED response
         ELSE /\ rpc' = [rpc EXCEPT ![r] = "done"]
              /\ response' = [response EXCEPT ![r] = Reply(400, "No filename provided")]
              /\ UNCHANGED loop
  /\ UNCHANGED <<ivars, xvars, files, converted, enrich_raised>>

\* convert_stream returns or raises
MarkitdownFinish(r) ==
  /\ rpc[r] = "md_converting"
  /\ loop = r
  /\ \E reply \in {Reply(200, "markdown"), Reply(415, "unsupported"),
                   Reply(500, "conversion"), Reply(500, "Conversion failed")} :
       response' = [response EXCEPT ![r] = reply]
  /\ rpc' = [rpc EXCEPT ![r] = "done"]
  /\ loop' = 0
  /\ UNCHANGED <<ivars, xvars, files, converted, enrich_raised>>

\* convert_file_to_markdown_by_docling up to "await file.read()"
DoclingEnter(r) ==
  /\ rpc[r] = "docling"
  /\ loop = 0
  /\ \E named \in BOOLEAN :
       IF named
         THEN /\ rpc' = [rpc EXCEPT ![r] = "reading"]
              /\ UNCHANGED response
         ELSE /\ rpc' = [rpc EXCEPT ![r] = "done"]
              /\ response' = [response EXCEPT ![r] = Reply(400, "No filename provided")]
  /\ UNCHANGED <<ivars, xvars, loop, files, converted, enrich_raised>>

\* from the temp file to "await asyncio.to_thread(converter.convert, tmp_path)";
\* when tmp.write raises, tmp_path is unbound and os.unlink(tmp_path) in the
\* finally clause raises a NameError that is swallowed
DoclingWriteTemp(r) ==
  /\ rpc[r] = "reading"
  /\ loop = 0
  /\ files' = files \cup {Upload(r)}
  /\ \E written \in BOOLEAN :
       IF written
         THEN /\ rpc' = [rpc EXCEPT ![r] = "converting"]
              /\ UNCHANGED response
         ELSE /\ rpc' = [rpc EXCEPT ![r] = "done"]
              /\ response' = [response EXCEPT ![r] = Reply(500, "Docling conversion failed")]
  /\ UNCHANGED <<ivars, xvars, loop, converted, enrich_raised>>

\* converter.convert ends in its worker thread
ConvertFinish(r) ==
  /\ rpc[r] = "converting"
  /\ \E ok \in BOOLEAN :
       rpc' = [rpc EXCEPT ![r] = IF ok THEN "convert_ok" ELSE "convert_failed"]
  /\ UNCHANGED <<ivars, xvars, loop, files, response, converted, enrich_raised>>

\* the handler resumes on the loop: mkdir, save_as_markdown, then the call
\* of PictureIntegration, made on the loop thread
DoclingResume(r) ==
  /\ rpc[r] \in {"convert_ok", "convert_failed"}
  /\ loop = 0
  /\ \E saved \in BOOLEAN :
       IF rpc[r] = "convert_ok" /\ saved
         THEN /\ files' = files \cup {MdFile(r)}
              /\ converted' = [converted EXCEPT ![r] = TRUE]
              /\ rpc' = [rpc EXCEPT ![r] = "enriching"]
              /\ loop' = r
              /\ UNCHANGED response
         ELSE \* except Exception; finally os.unlink(tmp_path)
              /\ files' = files \ {Upload(r)}
              /\ response' = [response EXCEPT ![r] = Reply(500, "Docling conversion failed")]
              /\ rpc' = [rpc EXCEPT ![r] = "done"]
              /\ UNCHANGED <<loop, converted>>
  /\ UNCHANGED <<ivars, xvars, enrich_raised>>

\* PictureIntegration returns or raises; the Response; finally os.unlink(tmp_path)
EnrichFinish(r) ==
  /\ rpc[r] = "enriching"
  /\ loop = r
  /\ \E raised \in BOOLEAN :
       /\ enrich_raised' = [enrich_raised EXCEPT ![r] = raised]
       /\ response' = [response EXCEPT ![r] = AfterEnrichment(raised)]
  /\ files' = files \ {Upload(r)}
  /\ rpc' = [rpc EXCEPT ![r] = "done"]
  /\ loop' = 0
  /\ UNCHANGED <<ivars, xvars, converted>>

InitRequests == IntegrationIdle /\ ExtractIdle /\ RequestInit

NextRequests ==
  \E r \in Requests :
    \/ Arrive(r)
    \/ MarkitdownEnter(r)
    \/ MarkitdownFinish(r)
    \/ DoclingEnter(r)
    \/ DoclingWriteTemp(r)
    \/ ConvertFinish(r)
    \/ DoclingResume(r)
    \/ EnrichFinish(r)

SpecRequests == InitRequests /\ [][NextRequests]_vars

(***************************************************************************)
(* Properties of the endpoints.                                            *)
(***************************************************************************)

\* C7: a docling request whose conversion succeeded is answered 200, and
\* when PictureIntegration raised, with the un-enriched export.
C7_EnrichmentFailureFallsBack ==
  \A r \in Requests :
    (rpc[r] = "done" /\ converted[r])
      => /\ response[r].status = 200
         /\ enrich_raised[r] => response[r] = Reply(200, "export_to_markdown")

C7_Witness ==
  \E r \in Requests : rpc[r] = "done" /\ converted[r] /\ enrich_raised[r]

\* the handler of q is ready to run as soon as the loop thread is free
AwaitsLoop(q) ==
  rpc[q] \in {"docling", "markitdown", "reading", "convert_ok", "convert_failed"}

\* C9: while one request is in conversion or in enrichment, the event loop
\* is free for any other request whose handler is ready to run.
C9_ConversionsOffTheLoop ==
  \A r, q \in Requests :
    (r # q /\ rpc[r] \in {"converting", "md_converting", "enriching"} /\ AwaitsLoop(q))
      => loop = 0

\* C10: when a docling request has finished, no file it created is left.
C10_TempFilesRemoved ==
  \A r \in Requests :
    rpc[r] = "done" => ~\E f \in files : f.owner = r

====
